---- MODULE Spec2Model ----
(***************************************************************************)
(* Model of fishing_calendar_app.py: the cached loading of the three CSV   *)
(* tables (load_data / safe_load), the cache-clearing button, and the      *)
(* location / species / gear resolution that one script run renders.       *)
(*                                                                         *)
(* Text is a sequence of one-character strings, so that str.lower(),       *)
(* str.split(" (") and str.contains() are computed as pandas and Python    *)
(* compute them.  A CSV cell is a text or NaN (an empty cell).             *)
(***************************************************************************)
EXTENDS Integers, Sequences, FiniteSets, TLC

\* Largest number of data rows of a CSV file in the pipeline specification.
MaxRows == 2

(***************************************************************************)
(* Cells and text                                                          *)
(***************************************************************************)

\* pandas' value of an empty CSV cell (float nan).
NaN == <<"<NaN>">>

\* Python's None (the default of row.get('legal_max_cm', None)).
PyNone == <<"<None>">>

\* pd.notna(v)
notna(v) == v # NaN /\ v # PyNone

UpperLetters == <<"A", "B", "C", "D", "E", "F", "G", "H", "I", "J", "K", "L", "M",
                  "N", "O", "P", "Q", "R", "S", "T", "U", "V", "W", "X", "Y", "Z">>

LowerLetters == <<"a", "b", "c", "d", "e", "f", "g", "h", "i", "j", "k", "l", "m",
                  "n", "o", "p", "q", "r", "s", "t", "u", "v", "w", "x", "y", "z">>

\* str.lower() of one character.
LowerChar(c) ==
    IF \E i \in 1..26 : UpperLetters[i] = c
    THEN LowerLetters[CHOOSE i \in 1..26 : UpperLetters[i] = c]
    ELSE c

\* str.lower()
lower(s) == [i \in 1..Len(s) |-> LowerChar(s[i])]

\* The separator of zone.split(' (').
ZoneSeparator == <<" ", "(">>

\* s.find(sep) + 1: the first position where sep occurs in s, 0 when none.
find(s, sep) ==
    LET hits == {i \in 1..(Len(s) - Len(sep) + 1) : SubSeq(s, i, i + Len(sep) - 1) = sep}
    IN  IF hits = {} THEN 0 ELSE CHOOSE i \in hits : \A j \in hits : i <= j

\* zone.split(' (')[0]: the text before the first " (", the whole text when none.
split_first(s) ==
    LET i == find(s, ZoneSeparator)
    IN  IF i = 0 THEN s ELSE SubSeq(s, 1, i - 1)

(***************************************************************************)
(* Series.str.contains(pat, case=False, na=False): regex=True is the       *)
(* default, so pat is compiled by re.compile(pat, re.IGNORECASE) and       *)
(* searched for.  The patterns of this model are built of letters, digits, *)
(* spaces, ".", "(" and ")": "." matches any character, "(" and ")" group  *)
(* without matching anything, and unbalanced ones make re.compile raise.   *)
(***************************************************************************)

RECURSIVE paren_depth(_, _, _)
\* The nesting depth after pat[i..], -1 once a ")" closes nothing.
paren_depth(pat, i, d) ==
    IF d < 0 THEN -1
    ELSE IF i > Len(pat) THEN d
    ELSE IF pat[i] = "(" THEN paren_depth(pat, i + 1, d + 1)
    ELSE IF pat[i] = ")" THEN paren_depth(pat, i + 1, d - 1)
    ELSE paren_depth(pat, i + 1, d)

\* re.compile(pat) returns (it raises re.error otherwise).
re_compiles(pat) == paren_depth(pat, 1, 0) = 0

\* The atoms of a compiled pattern: the group parentheses match nothing.
re_atoms(pat) == SelectSeq(pat, LAMBDA c : c \notin {"(", ")"})

\* One atom against one character, under re.IGNORECASE.
re_atom_matches(a, c) == a = "." \/ LowerChar(a) = LowerChar(c)

\* re.search(pat, s, re.IGNORECASE) is not None, pat compiling.
re_search(pat, s) ==
    LET atoms == re_atoms(pat)
    IN  \E k \in 0..(Len(s) - Len(atoms)) :
            \A i \in 1..Len(atoms) : re_atom_matches(atoms[i], s[k + i])

\* One element of Series.str.contains(pat, case=False, na=False).
str_contains(cell, pat) ==
    IF cell = NaN THEN FALSE ELSE re_search(pat, cell)

(***************************************************************************)
(* Tables                                                                  *)
(***************************************************************************)

\* pd.DataFrame(): no columns, no rows (what safe_load returns on a failure).
EmptyDF == [cols |-> {}, rows |-> <<>>]

\* DataFrame.empty
df_empty(df) == df.cols = {} \/ df.rows = <<>>

\* row.get(key, default) of a row Series.
row_get(row, key, default) ==
    IF key \in DOMAIN row THEN row[key] ELSE default

\* The .str accessor of a column: pandas reads a column with rows, all of them
\* empty, as float64, and .str raises AttributeError on it.
str_accessor_ok(df, col) ==
    df.rows = <<>> \/ \E i \in 1..Len(df.rows) : df.rows[i][col] # NaN

(***************************************************************************)
(* load_data                                                               *)
(***************************************************************************)

\* A CSV file on disk: it is absent, cannot be read as CSV (a parser error or
\* any other exception of pd.read_csv), or holds a header and data rows.
MissingFile == [status |-> "missing", cols |-> {}, rows |-> <<>>]

UnparsableFile == [status |-> "unparsable", cols |-> {}, rows |-> <<>>]

UnreadableFile == [status |-> "unreadable", cols |-> {}, rows |-> <<>>]

CsvFile(cols, rows) == [status |-> "ok", cols |-> cols, rows |-> rows]

\* The required_columns of the three safe_load calls.
required_columns ==
    [locations |-> {"location_name", "zone"},
     fishing   |-> {"month", "zone", "species"},
     gear      |-> {"species"}]

TableNames == {"locations", "fishing", "gear"}

\* safe_load(filename, required_columns): every exception of pd.read_csv and
\* every missing required column ends in an empty DataFrame.
safe_load(file, required) ==
    IF file.status # "ok" THEN EmptyDF
    ELSE IF required \ file.cols # {} THEN EmptyDF
    ELSE [cols |-> file.cols, rows |-> file.rows]

\* A load in which one failure empties the three tables.
load_data_all_or_nothing(fs) ==
    LET t == [locations |-> safe_load(fs.locations, required_columns.locations),
              fishing   |-> safe_load(fs.fishing, required_columns.fishing),
              gear      |-> safe_load(fs.gear, required_columns.gear)]
    IN  IF EmptyDF \in {t.locations, t.fishing, t.gear}
        THEN [locations |-> EmptyDF, fishing |-> EmptyDF, gear |-> EmptyDF]
        ELSE t

\* The body of load_data: the three tables, each loaded on its own.
load_data_body(fs) ==
    [locations |-> safe_load(fs.locations, required_columns.locations),
     fishing   |-> safe_load(fs.fishing, required_columns.fishing),
     gear      |-> safe_load(fs.gear, required_columns.gear)]

\* The module-level tables before line 40 has run in this script run.
NoTables == [locations |-> EmptyDF, fishing |-> EmptyDF, gear |-> EmptyDF]

\* st.cache_data holds no entry for load_data.
NoCache == [present |-> FALSE, tables |-> NoTables]

(***************************************************************************)
(* One script run's resolution of (selected_location, selected_date)       *)
(***************************************************************************)

\* calendar.month_name[1..12]
month_name_of ==
    <<"January", "February", "March", "April", "May", "June", "July",
      "August", "September", "October", "November", "December">>

\* The default of loc_row.get('zone', 'Unknown').
Unknown == <<"U", "n", "k", "n", "o", "w", "n">>

\* The default of row.get('rating', '—').
EmDash == <<"<em dash>">>

\* The default of row.get('legal_min_cm', 'N/A').
NotAvailable == <<"N", "/", "A">>

\* The ratings (lower-cased) that mean a closed season.
closed_ratings ==
    { <<"c", "l", "o", "s", "e", "d">>,
      <<"n", "o", " ", "t", "a", "k", "e">>,
      <<"c", "l", "o", "s", "e", "d", " ", "s", "e", "a", "s", "o", "n">> }

\* No "View on Google Maps" link is rendered.
NoLink == <<>>

\* gear = None
NoGear == [species |-> PyNone]

\* A comparison of names that ignores letter case.
name_matches_ignoring_case(cell, name) == lower(cell) = lower(name)

\* locations_df['location_name'] == selected_location, for one cell.
name_matches(cell, name) == cell = name

\* The condition of line 85: the table is not empty and selected_location is
\* a value of its location_name column.
location_known(df, name) ==
    /\ ~df_empty(df)
    /\ \E i \in 1..Len(df.rows) : name_matches(df.rows[i]["location_name"], name)

\* locations_df[locations_df['location_name'] == selected_location].iloc[0]
first_location(df, name) ==
    LET hits == {i \in 1..Len(df.rows) : name_matches(df.rows[i]["location_name"], name)}
    IN  df.rows[CHOOSE i \in hits : \A j \in hits : i <= j]

\* The Google Maps link: the pair of coordinates put in the URL, or none.
maps_link(loc_row) ==
    IF /\ "latitude" \in DOMAIN loc_row
       /\ "longitude" \in DOMAIN loc_row
       /\ notna(loc_row["latitude"])
       /\ notna(loc_row["longitude"])
    THEN <<loc_row["latitude"], loc_row["longitude"]>>
    ELSE NoLink

\* The exception the filter expression of lines 113-116 raises, "" when none.
filter_error(fishing_df, zone) ==
    IF "month" \notin fishing_df.cols THEN "KeyError"
    ELSE IF "zone" \notin fishing_df.cols THEN "KeyError"
    ELSE IF ~str_accessor_ok(fishing_df, "zone") THEN "AttributeError"
    ELSE IF zone = NaN THEN "AttributeError"
    ELSE IF ~re_compiles(split_first(zone)) THEN "re.error"
    ELSE ""

\* filtered: the rows of fishing_df of the month whose zone contains the
\* location's zone up to " (", in the order of the table.
filtered(fishing_df, month_name, zone) ==
    SelectSeq(fishing_df.rows,
              LAMBDA row : /\ row["month"] = month_name
                           /\ str_contains(row["zone"], split_first(zone)))

\* The exception line 129 raises for a species, "" when none.
gear_error(gear_df, species) ==
    IF "species" \notin gear_df.cols THEN "KeyError"
    ELSE IF ~str_accessor_ok(gear_df, "species") THEN "AttributeError"
    ELSE IF species = NaN THEN "AttributeError"
    ELSE ""

\* gear_match.iloc[0] if not gear_match.empty else None
gear_of(gear_df, species) ==
    LET hits == {i \in 1..Len(gear_df.rows) :
                     /\ gear_df.rows[i]["species"] # NaN
                     /\ lower(gear_df.rows[i]["species"]) = lower(species)}
    IN  IF hits = {} THEN NoGear
        ELSE gear_df.rows[CHOOSE i \in hits : \A j \in hits : i <= j]

\* The rating compared as it is written.
is_closed_exact(rating) == rating \in closed_ratings

\* rating.lower() in ['closed', 'no take', 'closed season']
is_closed(rating) == lower(rating) \in closed_ratings

\* A size text whose maximum part is always there.
size_str_always_max(row) ==
    <<[label |-> "Legal min", value |-> row_get(row, "legal_min_cm", NotAvailable)],
      [label |-> "Max", value |-> row_get(row, "legal_max_cm", PyNone)]>>

\* size_str, as its labelled parts.
size_str(row) ==
    LET min_cm == row_get(row, "legal_min_cm", NotAvailable)
        max_cm == row_get(row, "legal_max_cm", PyNone)
        min_part == <<[label |-> "Legal min", value |-> min_cm]>>
    IN  IF notna(max_cm) /\ max_cm # <<>>
        THEN Append(min_part, [label |-> "Max", value |-> max_cm])
        ELSE min_part

\* What one pass of the loop of lines 125-155 renders for a row: the expander
\* with its warning or legal sizes and the gear.  error names the exception
\* that ends the script run in this pass, "" when the pass completes.
render_row(row, gear_df) ==
    LET species == row["species"]
        rating  == row_get(row, "rating", EmDash)
        gerr    == gear_error(gear_df, species)
        gear    == gear_of(gear_df, species)
        blank   == [row |-> row, species |-> species, rating |-> rating,
                    expander |-> FALSE,
                    gear |-> NoGear, warning |-> FALSE, size |-> <<>>,
                    gear_shown |-> FALSE, error |-> ""]
    IN  IF gerr # "" THEN [blank EXCEPT !.error = gerr]
        ELSE IF rating = NaN
        THEN [blank EXCEPT !.expander = TRUE, !.gear = gear,
                           !.error = "AttributeError"]
        ELSE [blank EXCEPT !.expander = TRUE, !.gear = gear,
                           !.warning = is_closed(rating),
                           !.size = IF is_closed(rating) THEN <<>> ELSE size_str(row),
                           !.gear_shown = (gear # NoGear)]

RECURSIVE render_rows(_, _, _)
\* The loop of lines 125-155 from row i on: it stops at the first pass that raises.
render_rows(rows, gear_df, i) ==
    IF i > Len(rows) THEN <<>>
    ELSE LET item == render_row(rows[i], gear_df)
         IN  IF item.error # "" THEN <<item>>
             ELSE <<item>> \o render_rows(rows, gear_df, i + 1)

\* Nothing is rendered yet in this script run.
NoView ==
    [outcome |-> "none", error |-> "", message |-> "", location |-> <<>>,
     zone |-> <<>>, month |-> "", year |-> 0, map_link |-> NoLink,
     notice |-> "", species |-> <<>>]

\* Lines 85-161 for the chosen location and date.  outcome is "NotFound" (the
\* else branch), "View" (the branch ran to its end) or "Abort" (an exception
\* left the script, after what the view holds had been rendered).
resolve(tables, selected_location, selected_date) ==
    IF ~location_known(tables.locations, selected_location)
    THEN [NoView EXCEPT !.outcome = "NotFound",
                        !.message = IF df_empty(tables.locations)
                                    THEN "locations.csv could not be loaded"
                                    ELSE "Selected location not found"]
    ELSE
    LET loc_row    == first_location(tables.locations, selected_location)
        zone       == row_get(loc_row, "zone", Unknown)
        month_name == month_name_of[selected_date.month]
        head       == [NoView EXCEPT !.location = selected_location,
                                     !.zone = zone,
                                     !.month = month_name,
                                     !.year = selected_date.year,
                                     !.map_link = maps_link(loc_row)]
        ferr       == filter_error(tables.fishing, zone)
    IN  IF ferr # "" THEN [head EXCEPT !.outcome = "Abort", !.error = ferr]
        ELSE
        LET rows  == filtered(tables.fishing, month_name, zone)
            items == render_rows(rows, tables.gear, 1)
            err   == IF items = <<>> THEN "" ELSE items[Len(items)].error
        IN  [head EXCEPT !.outcome = IF err = "" THEN "View" ELSE "Abort",
                         !.error = err,
                         !.notice = IF rows = <<>> THEN "No species data recorded"
                                    ELSE "Target Species",
                         !.species = items]

(***************************************************************************)
(* The contents the CSV files take in this model                           *)
(***************************************************************************)

\* The columns of locations.csv, fishing_data.csv and gear_data.csv the
\* resolution reads.
LocationColumns == {"location_name", "zone", "latitude", "longitude"}

FishingColumns == {"month", "zone", "species", "rating", "legal_min_cm", "legal_max_cm"}

GearColumns == {"species", "rod"}

LocRow(name, zone, lat, lon) ==
    [location_name |-> name, zone |-> zone, latitude |-> lat, longitude |-> lon]

FishRow(month, zone, species, rating, min_cm, max_cm) ==
    [month |-> month, zone |-> zone, species |-> species, rating |-> rating,
     legal_min_cm |-> min_cm, legal_max_cm |-> max_cm]

GearRow(species, rod) == [species |-> species, rod |-> rod]

\* A file of the rows with only the columns cols.
CsvOf(cols, rows) ==
    CsvFile(cols, [i \in 1..Len(rows) |-> [c \in cols |-> rows[i][c]]])

\* The sequences over S of length at most n.
SeqUpTo(S, n) == UNION {[1..k -> S] : k \in 0..n}

Good == <<"G", "o", "o", "d">>

ClosedCap == <<"C", "l", "o", "s", "e", "d">>

ClosedLow == <<"c", "l", "o", "s", "e", "d">>

NoTakeCap == <<"N", "o", " ", "t", "a", "k", "e">>

\* The zone texts of locations: plain, with a parenthetical qualifier after a
\* space, with ".", with parentheses after no space, with an open parenthesis
\* alone, and empty.
LocationZones ==
    { <<"a">>, <<"A", " ", "(", "b", ")">>, <<".">>, <<"a", "(", "b", ")">>,
      <<"a", "(">>, NaN }

\* The zone texts of species rows.
FishingZones ==
    { <<"a">>, <<"b", "A">>, <<"b">>, <<"a", "b">>, <<"a", "(", "b", ")">>, NaN }

\* Location rows that differ in name and zone.
ZoneLocRows ==
    { LocRow(<<"S">>, z, <<"1">>, <<"2">>) : z \in LocationZones }
    \cup { LocRow(<<"s">>, z, <<"1">>, <<"2">>) : z \in {<<"a">>, <<".">>} }

\* Location rows that differ in their coordinates.
CoordLocRows ==
    { LocRow(<<"S">>, <<"a">>, lat, lon) :
          lat \in {NaN, <<"1">>, <<"x">>}, lon \in {NaN, <<"2">>} }
    \cup { LocRow(<<"S">>, <<"a">>, <<"1">>, <<"y">>) }

\* Species rows that differ in month and zone.
ZoneFishRows ==
    { FishRow("January", z, <<"t">>, Good, <<"3">>, NaN) : z \in FishingZones }
    \cup { FishRow("February", z, <<"t">>, Good, <<"3">>, NaN) : z \in {<<"a">>, <<"b">>} }

\* Species rows of one month and zone that differ in rating, legal maximum
\* and species.
RatedFishRows ==
    { FishRow("January", <<"a">>, <<"t">>, r, <<"3">>, mx) :
          r \in {Good, ClosedCap, NaN}, mx \in {NaN, <<"9">>} }
    \cup { FishRow("January", <<"a">>, <<"t">>, r, <<"3">>, <<"9">>) :
               r \in {ClosedLow, NoTakeCap} }
    \cup { FishRow("January", <<"a">>, sp, Good, NaN, <<"9">>) : sp \in {<<"T">>, NaN} }

GearRows ==
    { GearRow(sp, rod) : sp \in {<<"t">>, <<"T">>, <<"t", "t">>, NaN},
                         rod \in {<<"r">>, <<"q">>} }

\* locations.csv in the pipeline specification.
RichLocationFiles ==
    { CsvOf(LocationColumns, rows) : rows \in SeqUpTo(ZoneLocRows, MaxRows) }
    \cup { CsvOf(cols, rows) :
               cols \in {LocationColumns, LocationColumns \ {"latitude"},
                         LocationColumns \ {"latitude", "longitude"}},
               rows \in SeqUpTo(CoordLocRows, MaxRows) }

BaseLocationFiles ==
    { CsvOf(LocationColumns, <<LocRow(<<"S">>, z, <<"1">>, <<"2">>)>>) : z \in LocationZones }
    \cup { MissingFile }

\* fishing_data.csv in the pipeline specification.
ZoneFishingFiles ==
    { CsvOf(FishingColumns, rows) : rows \in SeqUpTo(ZoneFishRows, MaxRows) }

RatedFishingFiles ==
    { CsvOf(cols, rows) :
          cols \in {FishingColumns, FishingColumns \ {"rating"},
                    FishingColumns \ {"legal_max_cm"}, FishingColumns \ {"legal_min_cm"}},
          rows \in SeqUpTo(RatedFishRows, MaxRows) }

BaseFishingFiles ==
    { CsvOf(FishingColumns,
            <<FishRow("January", <<"a", "b">>, <<"t">>, Good, <<"3">>, NaN),
              FishRow("January", <<"a", "(", "b", ")">>, <<"T">>, ClosedCap, <<"3">>, <<"9">>)>>),
      CsvOf(FishingColumns \ {"zone"},
            <<FishRow("January", <<"a">>, <<"t">>, Good, <<"3">>, NaN)>>),
      UnparsableFile }

\* gear_data.csv in the pipeline specification.
RichGearFiles ==
    { CsvOf(GearColumns, rows) : rows \in SeqUpTo(GearRows, MaxRows) }

BaseGearFiles ==
    { CsvOf(GearColumns, <<GearRow(<<"t">>, <<"r">>)>>),
      CsvOf(GearColumns, <<>>),
      MissingFile }

\* The three files of the pipeline specification: one of them takes every
\* content up to MaxRows rows, the other two a few.
PipelineFiles ==
    [locations : RichLocationFiles, fishing : BaseFishingFiles, gear : BaseGearFiles]
    \cup [locations : BaseLocationFiles, fishing : ZoneFishingFiles, gear : BaseGearFiles]
    \cup [locations : {CsvOf(LocationColumns, <<LocRow(<<"S">>, <<"a">>, <<"1">>, <<"2">>)>>)},
          fishing : RatedFishingFiles, gear : BaseGearFiles]
    \cup [locations : {CsvOf(LocationColumns, <<LocRow(<<"S">>, <<"a">>, <<"1">>, <<"2">>)>>)},
          fishing : BaseFishingFiles, gear : RichGearFiles]

\* The contents a file changes between in the lifecycle specification.
LifecycleFiles ==
    [locations |->
        { MissingFile,
          CsvOf(LocationColumns, <<LocRow(<<"S">>, <<"a">>, <<"1">>, <<"2">>)>>),
          CsvOf({"location_name", "latitude"}, <<LocRow(<<"S">>, <<"a">>, <<"1">>, <<"2">>)>>) },
     fishing |->
        { UnparsableFile,
          CsvOf(FishingColumns, <<FishRow("January", <<"a">>, <<"t">>, Good, <<"3">>, NaN)>>),
          CsvOf(FishingColumns \ {"species"},
                <<FishRow("January", <<"a">>, <<"t">>, Good, <<"3">>, NaN)>>) },
     gear |->
        { UnreadableFile,
          CsvOf(GearColumns, <<GearRow(<<"T">>, <<"r">>)>>),
          CsvOf({"rod"}, <<GearRow(<<"T">>, <<"r">>)>>) }]

\* The location names and dates the widgets hand to the resolution.  The
\* selectbox offers the names of the table; the resolution is modelled for any
\* name, one of no row included, as its else branch (lines 157-161) provides.
LocationInputs == { <<"S">>, <<"s">>, <<"X">> }

MinYear == 2025

MaxYear == 2027

DateInputs ==
    { [year |-> MinYear, month |-> 1], [year |-> 2026, month |-> 2],
      [year |-> MaxYear, month |-> 12] }

(***************************************************************************)
(* The state machine                                                       *)
(***************************************************************************)

VARIABLES
    files,         \* the three CSV files on disk
    cache,         \* st.cache_data's entry for load_data
    body_ran,      \* the last call of load_data ran its body (read the files)
    snapshot,      \* the files as they were when the body last ran
    locations_df,  \* the module-level tables of this script run
    fishing_df,
    gear_df,
    selected_location,  \* the values of the two input widgets in this script run
    selected_date,
    pc,            \* where the script run stands: "start", "loaded", "done"
    view           \* what lines 85-161 rendered in this script run

vars == <<files, cache, body_ran, snapshot, locations_df, fishing_df, gear_df,
          selected_location, selected_date, pc, view>>

\* load_data() without its cache: the body runs on every call.
load_data_uncached(c, fs) ==
    [cache |-> [present |-> TRUE, tables |-> load_data_body(fs)], ran |-> TRUE]

\* load_data() under @st.cache_data: the body runs only when nothing is cached.
load_data(c, fs) ==
    IF c.present
    THEN [cache |-> c, ran |-> FALSE]
    ELSE [cache |-> [present |-> TRUE, tables |-> load_data_body(fs)], ran |-> TRUE]

\* st.cache_data.clear()
cache_clear(c) == NoCache

InitWith(fs) ==
    /\ files = fs
    /\ cache = NoCache
    /\ body_ran = FALSE
    /\ snapshot = fs
    /\ locations_df = EmptyDF
    /\ fishing_df = EmptyDF
    /\ gear_df = EmptyDF
    /\ selected_location = <<>>
    /\ selected_date = [year |-> MinYear, month |-> 1]
    /\ pc = "start"
    /\ view = NoView

\* Lines 8-40: locations_df, fishing_df, gear_df = load_data()
Load ==
    /\ pc = "start"
    /\ LET r == load_data(cache, files)
       IN  /\ cache' = r.cache
           /\ body_ran' = r.ran
           /\ snapshot' = IF r.ran THEN files ELSE snapshot
           /\ locations_df' = r.cache.tables.locations
           /\ fishing_df' = r.cache.tables.fishing
           /\ gear_df' = r.cache.tables.gear
    /\ pc' = "loaded"
    /\ UNCHANGED <<files, selected_location, selected_date, view>>

\* Lines 59-161: the widgets give a location and a date, and the view is rendered.
Render ==
    /\ pc = "loaded"
    /\ \E name \in LocationInputs, date \in DateInputs :
           /\ selected_location' = name
           /\ selected_date' = date
           /\ view' = resolve([locations |-> locations_df, fishing |-> fishing_df,
                               gear |-> gear_df], name, date)
    /\ pc' = "done"
    /\ UNCHANGED <<files, cache, body_ran, snapshot, locations_df, fishing_df, gear_df>>

\* A widget changes: Streamlit runs the script again from the top, in a fresh
\* namespace.
Rerun ==
    /\ pc = "done"
    /\ pc' = "start"
    /\ view' = NoView
    /\ body_ran' = FALSE
    /\ locations_df' = EmptyDF
    /\ fishing_df' = EmptyDF
    /\ gear_df' = EmptyDF
    /\ selected_location' = <<>>
    /\ selected_date' = [year |-> MinYear, month |-> 1]
    /\ UNCHANGED <<files, cache, snapshot>>

\* Lines 178-180: the sidebar button, which a script run reaches only when no
\* exception left it: the cache is cleared and the script runs again.
Refresh ==
    /\ pc = "done"
    /\ view.outcome # "Abort"
    /\ cache' = cache_clear(cache)
    /\ pc' = "start"
    /\ view' = NoView
    /\ body_ran' = FALSE
    /\ locations_df' = EmptyDF
    /\ fishing_df' = EmptyDF
    /\ gear_df' = EmptyDF
    /\ selected_location' = <<>>
    /\ selected_date' = [year |-> MinYear, month |-> 1]
    /\ UNCHANGED <<files, snapshot>>

\* A CSV file is replaced, removed or restored on disk.
ChangeSource ==
    /\ \E t \in TableNames :
           \E f \in LifecycleFiles[t] :
               /\ f # files[t]
               /\ files' = [files EXCEPT ![t] = f]
    /\ UNCHANGED <<cache, body_ran, snapshot, locations_df, fishing_df, gear_df,
                   selected_location, selected_date, pc, view>>

\* The lifecycle: script runs, cache clears and changes of the files.
Init == \E fs \in [locations : LifecycleFiles.locations,
                   fishing : LifecycleFiles.fishing,
                   gear : LifecycleFiles.gear] : InitWith(fs)

Next == Load \/ Render \/ Rerun \/ Refresh \/ ChangeSource

Spec == Init /\ [][Next]_vars

\* The pipeline: script runs over files that stay as they are.
PipelineInit == \E fs \in PipelineFiles : InitWith(fs)

PipelineNext == Load \/ Render \/ Rerun \/ Refresh

PipelineSpec == PipelineInit /\ [][PipelineNext]_vars

(***************************************************************************)
(* The claims                                                              *)
(***************************************************************************)

\* The rendered view belongs to a location of the table.
Resolved == pc = "done" /\ view.outcome # "NotFound"

\* The row of locations_df the view was rendered from.
ResolvedRow ==
    LET hits == {i \in 1..Len(locations_df.rows) :
                     locations_df.rows[i]["location_name"] = selected_location}
    IN  locations_df.rows[CHOOSE i \in hits : \A j \in hits : i <= j]

\* C1: resolve never aborts, whichever of the three tables are empty because
\* their load failed: it ends with NotFound or with a view; with the location
\* known and the species table empty by a failed load the view has an empty
\* species sequence, and with the gear table empty by a failed load every pair
\* of the view has no gear.
C1_ResolveNeverAborts ==
    pc = "done" =>
        /\ view.outcome \in {"NotFound", "View"}
        /\ (view.outcome # "NotFound" /\ fishing_df = EmptyDF) => view.species = <<>>
        /\ gear_df = EmptyDF =>
               \A i \in 1..Len(view.species) : view.species[i].gear = NoGear

\* C2: resolve returns NotFound if and only if no row of the Locations table
\* has exactly the selected name (case-sensitive), an empty table included.
C2_NotFoundIffNameAbsent ==
    pc = "done" =>
        ( view.outcome = "NotFound"
          <=> \A i \in 1..Len(locations_df.rows) :
                  locations_df.rows[i]["location_name"] # selected_location )

\* C2's case: a table with rows, one of them named as selected but for the
\* letter case, and NotFound.
C2_Witness ==
    /\ pc = "done"
    /\ view.outcome = "NotFound"
    /\ \E i \in 1..Len(locations_df.rows) :
           lower(locations_df.rows[i]["location_name"]) = lower(selected_location)

\* text contains key as a literal substring, letter case ignored.
ContainsLiteral(text, key) ==
    \E k \in 0..(Len(text) - Len(key)) :
        \A i \in 1..Len(key) : LowerChar(key[i]) = LowerChar(text[k + i])

\* C3: the species sequence of the view is exactly the rows of the species
\* table, in table order, whose month is the date's month name and whose
\* zone is not null and contains, as a literal substring ignoring case, the
\* location's zone text before its first " (".
C3_LiteralZoneSubsequence ==
    (pc = "done" /\ view.outcome = "View") =>
        [i \in 1..Len(view.species) |-> view.species[i].row]
        = SelectSeq(fishing_df.rows,
                    LAMBDA row : /\ row["month"] = month_name_of[selected_date.month]
                                 /\ row["zone"] # NaN
                                 /\ ContainsLiteral(row["zone"], split_first(view.zone)))

\* The gear rows whose species is that of the species row, letter case ignored.
GearMatches(species) ==
    {j \in 1..Len(gear_df.rows) :
         /\ gear_df.rows[j]["species"] # NaN
         /\ species # NaN
         /\ lower(gear_df.rows[j]["species"]) = lower(species)}

\* C4: every matched species row gets its gear from the gear table: the first
\* gear row, in table order, whose species equals the row's ignoring letter
\* case, and no gear exactly when no gear row matches.
C4_FirstGearIgnoringCase ==
    (pc = "done" /\ view.notice = "Target Species") =>
        \A i \in 1..Len(view.species) :
            LET item == view.species[i]
                hits == GearMatches(item.row["species"])
            IN  /\ item.expander
                /\ item.gear = IF hits = {} THEN NoGear
                               ELSE gear_df.rows[CHOOSE j \in hits : \A k \in hits : j <= k]

\* C5: load() runs its body (reads the files) exactly when nothing is cached,
\* which is so only before the first load and after an invalidation; any
\* other load() returns the cached tables as they are, whatever the files
\* have become; the cache changes only by such a load or by an invalidation,
\* which empties it of the three tables at once.
C5_CachedUntilInvalidated ==
    [][ /\ (pc = "start" /\ pc' = "loaded") =>
               /\ body_ran' <=> ~cache.present
               /\ cache.present =>
                      /\ cache' = cache
                      /\ locations_df' = cache.tables.locations
                      /\ fishing_df' = cache.tables.fishing
                      /\ gear_df' = cache.tables.gear
               /\ ~cache.present => (cache'.present /\ snapshot' = files)
        /\ (cache.present /\ cache' # cache) =>
               /\ pc = "done" /\ pc' = "start"
               /\ ~cache'.present
               /\ cache'.tables = [locations |-> EmptyDF, fishing |-> EmptyDF,
                                   gear |-> EmptyDF]
      ]_vars

\* C5's case: a load served from the cache after the species file, whose load
\* had failed, became readable: the species table is still the empty one.
C5_Witness ==
    /\ pc = "loaded"
    /\ cache.present
    /\ ~body_ran
    /\ snapshot.fishing.status # "ok"
    /\ files.fishing.status = "ok"
    /\ {"month", "zone", "species"} \subseteq files.fishing.cols
    /\ files.fishing.rows # <<>>
    /\ fishing_df = EmptyDF

\* The source of table t failed: it is missing, cannot be parsed or lacks one
\* of the table's required columns.
SourceFailed(file, t) ==
    \/ file.status # "ok"
    \/ t = "locations" /\ ~({"location_name", "zone"} \subseteq file.cols)
    \/ t = "fishing" /\ ~({"month", "zone", "species"} \subseteq file.cols)
    \/ t = "gear" /\ ~({"species"} \subseteq file.cols)

\* C6: each cached table is the empty table when its own source failed and
\* the source's columns and rows otherwise, whatever became of the other two.
C6_FailedTableEmptyOthersIntact ==
    cache.present =>
        \A t \in TableNames :
            cache.tables[t] = IF SourceFailed(snapshot[t], t) THEN EmptyDF
                              ELSE [cols |-> snapshot[t].cols, rows |-> snapshot[t].rows]

\* C6's case: one source lacks a required column, another is unreadable, and
\* the third table is loaded with its rows.
C6_Witness ==
    /\ cache.present
    /\ snapshot.fishing.status = "ok"
    /\ "species" \notin snapshot.fishing.cols
    /\ snapshot.gear.status # "ok"
    /\ cache.tables.fishing = EmptyDF
    /\ cache.tables.gear = EmptyDF
    /\ cache.tables.locations.rows # <<>>

\* C7: the view of a known location has the location's stored zone, or
\* "Unknown" when that zone is null, the English name of the date's month and
\* the date's year.
C7_ZoneMonthYear ==
    Resolved =>
        /\ view.zone = IF ResolvedRow["zone"] = NaN THEN Unknown ELSE ResolvedRow["zone"]
        /\ view.month = month_name_of[selected_date.month]
        /\ view.year = selected_date.year

\* The species rows whose rating check (line 133) ran on a text rating.
RatedItems ==
    {i \in 1..Len(view.species) :
         view.species[i].expander /\ view.species[i].rating # NaN}

Digits == {"0", "1", "2", "3", "4", "5", "6", "7", "8", "9"}

\* The cell holds a number.
IsNumber(v) == v # NaN /\ v # <<>> /\ \A i \in 1..Len(v) : v[i] \in Digits

\* C9: a map link is produced if and only if latitude and longitude are both
\* present and both valid numbers (stated of the views that ran to their end).
C9_MapLinkOnlyForNumbers ==
    (pc = "done" /\ view.outcome = "View") =>
        ( view.map_link # NoLink
          <=> /\ "latitude" \in DOMAIN ResolvedRow
              /\ "longitude" \in DOMAIN ResolvedRow
              /\ IsNumber(ResolvedRow["latitude"])
              /\ IsNumber(ResolvedRow["longitude"]) )

\* The species rows rendered as not closed.
OpenItems == {i \in RatedItems : ~view.species[i].warning}

\* The row has a legal maximum: the column is there and the cell neither
\* null nor empty.
HasLegalMax(row) ==
    /\ "legal_max_cm" \in DOMAIN row
    /\ row["legal_max_cm"] # NaN
    /\ row["legal_max_cm"] # <<>>

\* C10: the legal-size text of a row that is not closed-season starts with
\* the legal minimum and holds a maximum part if and only if the row's legal
\* maximum is present; without one the text is the minimum part alone.
C10_MaxOnlyWhenPresent ==
    pc = "done" =>
        \A i \in OpenItems :
            LET item == view.species[i]
                maxes == {k \in 1..Len(item.size) : item.size[k].label = "Max"}
            IN  /\ item.size # <<>>
                /\ item.size[1].label = "Legal min"
                /\ maxes # {} <=> HasLegalMax(item.row)
                /\ HasLegalMax(item.row) =>
                       item.size[2] = [label |-> "Max", value |-> item.row["legal_max_cm"]]
                /\ ~HasLegalMax(item.row) => Len(item.size) = 1

\* C10's case: a row that is not closed, its legal maximum cell empty, is
\* rendered with the legal minimum alone.
C10_Witness ==
    /\ pc = "done"
    /\ \E i \in OpenItems :
           /\ "legal_max_cm" \in DOMAIN view.species[i].row
           /\ view.species[i].row["legal_max_cm"] = NaN
           /\ view.species[i].size
                  = <<[label |-> "Legal min", value |-> view.species[i].row["legal_min_cm"]]>>

(***************************************************************************)
(* What the code does keep of the claims it breaks                         *)
(***************************************************************************)

\* The zone key is made of letters, digits and spaces only.
PlainKey(key) == \A i \in 1..Len(key) : key[i] \notin {".", "(", ")"}

\* With a zone key of letters and spaces the filter is the literal one of C3.
ZoneFilterOnPlainKeys ==
    (pc = "done" /\ view.outcome = "View" /\ PlainKey(split_first(view.zone))) =>
        [i \in 1..Len(view.species) |-> view.species[i].row]
        = SelectSeq(fishing_df.rows,
                    LAMBDA row : /\ row["month"] = month_name_of[selected_date.month]
                                 /\ row["zone"] # NaN
                                 /\ ContainsLiteral(row["zone"], split_first(view.zone)))

\* Where the gear join of line 129 runs, it attaches the first gear row equal
\* to the species ignoring letter case, and none when there is none.
GearJoinWhereItRuns ==
    pc = "done" =>
        \A i \in 1..Len(view.species) :
            LET item == view.species[i]
                hits == GearMatches(item.row["species"])
            IN  item.expander =>
                    item.gear = IF hits = {} THEN NoGear
                                ELSE gear_df.rows[CHOOSE j \in hits : \A k \in hits : j <= k]

\* The view of a location whose zone is not null has that zone, and the month
\* name and year of the date.
ZoneOfNonNullLocation ==
    (Resolved /\ ResolvedRow["zone"] # NaN) =>
        /\ view.zone = ResolvedRow["zone"]
        /\ view.month = month_name_of[selected_date.month]
        /\ view.year = selected_date.year

\* The map link is there exactly when both coordinate cells exist and are not null.
MapLinkIffBothNotNull ==
    Resolved =>
        ( view.map_link # NoLink
          <=> /\ "latitude" \in DOMAIN ResolvedRow
              /\ "longitude" \in DOMAIN ResolvedRow
              /\ ResolvedRow["latitude"] # NaN
              /\ ResolvedRow["longitude"] # NaN )

\* A script run aborts only on a table without its columns, on a column or a
\* cell that is null where text is needed, or on a zone key that is no
\* regular expression.
AbortCauses ==
    (pc = "done" /\ view.outcome = "Abort") =>
        \/ fishing_df = EmptyDF
        \/ gear_df = EmptyDF
        \/ view.zone = NaN
        \/ ~re_compiles(split_first(view.zone))
        \/ ~str_accessor_ok(fishing_df, "zone")
        \/ ~str_accessor_ok(gear_df, "species")
        \/ \E i \in 1..Len(view.species) :
               \/ view.species[i].row["species"] = NaN
               \/ view.species[i].rating = NaN

====
